---- MODULE Spec2Model ----
(***************************************************************************)
(* Model of the cart and product services of the e-commerce backend.       *)
(*                                                                         *)
(* The store is two tables: products (ProductService, CartService) and     *)
(* cartItems (CartService).  Every request is handled by a slot of         *)
(* Requests; a handler advances one store access at a time, exactly at     *)
(* the points where the TypeScript code awaits the repository.  Spec runs  *)
(* one request to completion before the next one starts; ConcSpec lets    *)
(* two cart requests interleave at their store accesses; ScenarioSpec is   *)
(* a client that issues a fixed sequence of calls and keeps the responses. *)
(***************************************************************************)
EXTENDS Integers, FiniteSets, Sequences, TLC

\* ---------------------------------------------------------------- bounds
MaxQty == 1          \* largest quantity a single request carries
MaxQuantity == 2     \* cap on the quantity a line item is driven to
MaxItems == 2        \* line item ids handed out by the store

Users == {"u1", "u2"}
Names == {"a", "b"}
Requests == {1, 2}
SeqRequests == {1}
ConcUsers == {"u1"}

\* product ids: those the store hands out, in this order
ProductIds == {1, 2}
\* quantities a client may send; 0 stands for every value @Min(1) rejects
QtyInputs == 0..MaxQty

NoId == 0

VARIABLES
    products,       \* rows of the product table
    nextProductId,  \* next generated product id
    cartItems,      \* rows of the cart_item table
    nextItemId,     \* next generated line item id
    req,            \* per request slot: the handler's arguments, position, locals and outcome
    script,         \* scenario runs: the calls a client issues one after another
    log             \* scenario runs: the responses to the calls issued so far

vars == <<products, nextProductId, cartItems, nextItemId, req, script, log>>

store == <<products, nextProductId, cartItems, nextItemId>>

\* ------------------------------------------------------------- entities
\* Product entity: id, the updatable data (one column stands for name, price,
\* description and stock) and the isActive flag
Product(id, name, isActive) == [id |-> id, name |-> name, isActive |-> isActive]

\* CartItem entity: generated id, owning user, referenced product, quantity
CartItem(id, user, product, quantity) ==
    [id |-> id, user |-> user, product |-> product, quantity |-> quantity]

IdleReq ==
    [op |-> "none", pc |-> "idle", user |-> "u1", productId |-> 0, quantity |-> 0,
     name |-> "a", cartItem |-> {}, status |-> "none", ret |-> {}, retProducts |-> {},
     acc |-> 0]

\* a new request with its arguments, before its first store access
NewReq(op, user, productId, quantity, name) ==
    [IdleReq EXCEPT !.op = op, !.user = user, !.productId = productId,
                    !.quantity = quantity, !.name = name]

\* variant: @Min(0)
ValidQuantityFromZero(q) == q >= 0

\* AddToCartDto / UpdateQuantityDto: @IsInt() @Min(1) quantity
ValidQuantity(q) == q >= 1

\* ------------------------------------------------------- store queries
\* variant: the where clause names the row id instead of the product
CartItemsOfRowId(items, user, productId) ==
    {c \in items : c.user = user /\ c.id = productId}

\* variant: the where clause leaves out the user
CartItemsOfAnyUser(items, user, productId) ==
    {c \in items : c.product = productId}

\* cartItemRepository.find*({ where: { user: { id }, product: { id } } })
CartItemsOf(items, user, productId) ==
    {c \in items : c.user = user /\ c.product = productId}

\* variant: find() without the where clause
CartOfEveryone(items, user) == items

\* cartItemRepository.find({ where: { user: { id } } })
CartOf(items, user) == {c \in items : c.user = user}

\* variant: findOne() without the where clause
ProductsByIdAny(prods, id) == prods

\* productRepository.findOne({ where: { id } })
ProductsById(prods, id) == {x \in prods : x.id = id}

\* productRepository.find*({ where: { isActive: true } })
ActiveProducts(prods) == {x \in prods : x.isActive}

\* variant: the where clause leaves out isActive
ActiveProductsByIdAnyFlag(prods, id) == {x \in prods : x.id = id}

\* productRepository.findOne({ where: { id, isActive: true } })
ActiveProductsById(prods, id) == {x \in ActiveProducts(prods) : x.id = id}

\* variant: = in place of +=
MergeQuantityOverwrite(c, quantity) == [c EXCEPT !.quantity = quantity]

\* cartItem.quantity += quantity
MergeQuantity(c, quantity) == [c EXCEPT !.quantity = @ + quantity]

\* variant: += in place of =
SetQuantityAdding(c, quantity) == [c EXCEPT !.quantity = @ + quantity]

\* cartItem.quantity = quantity
SetQuantity(c, quantity) == [c EXCEPT !.quantity = quantity]

\* the foreign key of CartItem.product: rows of items that reference product id
\* variant: no foreign key is declared on CartItem.product
ReferencedByNone(items, id) == {}

ReferencedBy(items, id) == {c \in items : c.product = id}

\* cartItemRepository.save(entity): an entity without id is inserted under the
\* next generated id, an entity whose row exists is updated, an entity whose
\* row is gone is inserted again under its id
SavedItem(c, nid) == IF c.id = NoId THEN [c EXCEPT !.id = nid] ELSE c

\* variant: save() as an upsert on (user, product)
SaveItemUpsert(items, c, nid) ==
    IF \E x \in items : x.user = c.user /\ x.product = c.product
    THEN {IF x.user = c.user /\ x.product = c.product
          THEN [x EXCEPT !.quantity = c.quantity] ELSE x : x \in items}
    ELSE items \cup {SavedItem(c, nid)}

SaveItem(items, c, nid) ==
    {x \in items : x.id # c.id} \cup {SavedItem(c, nid)}

\* variant: remove() deletes by owner
RemoveItemOfUser(items, c) == {x \in items : x.user # c.user}

\* cartItemRepository.remove(entity): DELETE of the row of the entity's id
RemoveItem(items, c) == {x \in items : x.id # c.id}

\* ---------------------------------------------------------------- helpers
InFlight(r) == r.pc \notin {"idle", "done"}

Finish(r, status, ret) ==
    [r EXCEPT !.pc = "done", !.status = status, !.ret = ret]

\* line items that in-flight addToCart calls may still insert
PendingInserts == Cardinality({p \in Requests : req[p].op = "addToCart" /\ InFlight(req[p])})

\* quantity that the in-flight addToCart call of slot p may still add to (user, productId)
PendingOf(p, user, productId) ==
    IF req[p].op = "addToCart" /\ InFlight(req[p]) /\ req[p].user = user
       /\ req[p].productId = productId
    THEN req[p].quantity ELSE 0

\* quantity that in-flight addToCart calls may still add to (user, productId)
PendingQty(user, productId) == PendingOf(1, user, productId) + PendingOf(2, user, productId)

\* the model's bound on quantities and generated ids
AddWithinBounds(user, productId, quantity) ==
    /\ nextItemId + PendingInserts <= MaxItems
    /\ \A c \in CartItemsOf(cartItems, user, productId) :
          c.quantity + PendingQty(user, productId) + quantity <= MaxQuantity
    /\ PendingQty(user, productId) + quantity <= MaxQuantity

TypeOK ==
    /\ nextProductId \in ProductIds \cup {3}
    /\ nextItemId \in 1..(MaxItems + 1)
    /\ \A x \in products : x.id \in ProductIds /\ x.name \in Names /\ x.isActive \in BOOLEAN
    /\ \A c \in cartItems : c.id \in 1..MaxItems /\ c.user \in Users /\ c.quantity \in Int
    /\ DOMAIN req = Requests

Init ==
    /\ products = {}
    /\ nextProductId = 1
    /\ cartItems = {}
    /\ nextItemId = 1
    /\ req = [p \in Requests |-> IdleReq]
    /\ script = <<>>
    /\ log = <<>>

\* -------------------------------------------------------------- CartService
\* variant: the product is looked up before the line item on every path
addToCartProductFirst(p, user, productId, quantity) ==
    /\ ~InFlight(req[p])
    /\ LET r == NewReq("addToCart", user, productId, quantity, "a")
           found == CartItemsOf(cartItems, user, productId)
       IN IF ~ValidQuantity(quantity)
          THEN req' = [req EXCEPT ![p] = Finish(r, "ValidationError", {})]
          ELSE IF found # {}
               THEN \E c \in found :
                      req' = [req EXCEPT ![p] =
                                [r EXCEPT !.pc = "save", !.acc = 2,
                                          !.cartItem = {MergeQuantity(c, quantity)}]]
               ELSE req' = [req EXCEPT ![p] = [r EXCEPT !.pc = "findProduct", !.acc = 1]]
    /\ UNCHANGED <<store, script, log>>

\* POST /cart/add: validation, then the lookup of the line item
addToCart(p, user, productId, quantity) ==
    /\ ~InFlight(req[p])
    /\ LET r == NewReq("addToCart", user, productId, quantity, "a")
           found == CartItemsOf(cartItems, user, productId)
       IN IF ~ValidQuantity(quantity)
          THEN req' = [req EXCEPT ![p] = Finish(r, "ValidationError", {})]
          ELSE IF found # {}
               THEN \E c \in found :
                      req' = [req EXCEPT ![p] =
                                [r EXCEPT !.pc = "save", !.acc = 1,
                                          !.cartItem = {MergeQuantity(c, quantity)}]]
               ELSE req' = [req EXCEPT ![p] = [r EXCEPT !.pc = "findProduct", !.acc = 1]]
    /\ UNCHANGED <<store, script, log>>

\* the product lookup of the branch that creates a line item
addToCart_findProduct(p) ==
    /\ req[p].op = "addToCart" /\ req[p].pc = "findProduct"
    /\ LET r == [req[p] EXCEPT !.acc = @ + 1]
       IN IF ProductsById(products, r.productId) = {}
          THEN req' = [req EXCEPT ![p] = Finish(r, "NotFound", {})]
          ELSE req' = [req EXCEPT ![p] =
                         [r EXCEPT !.pc = "save",
                                   !.cartItem = {CartItem(NoId, r.user, r.productId, r.quantity)}]]
    /\ UNCHANGED <<store, script, log>>

\* cartItemRepository.save(cartItem) as the last statement of a handler; the
\* insert of a row whose product row is gone violates the foreign key
RepositorySave(p) ==
    /\ req[p].pc = "save"
    /\ LET r == [req[p] EXCEPT !.acc = @ + 1]
           c == CHOOSE x \in r.cartItem : TRUE
           isInsert == \A x \in cartItems : x.id # c.id
       IN IF isInsert /\ ProductsById(products, c.product) = {}
          THEN /\ req' = [req EXCEPT ![p] = Finish(r, "StoreError", {})]
               /\ UNCHANGED <<cartItems, nextItemId>>
          ELSE /\ cartItems' = SaveItem(cartItems, c, nextItemId)
               /\ nextItemId' = IF c.id = NoId THEN nextItemId + 1 ELSE nextItemId
               /\ req' = [req EXCEPT ![p] = Finish(r, "ok", {SavedItem(c, nextItemId)})]
    /\ UNCHANGED <<products, nextProductId, script, log>>

\* return this.cartItemRepository.save(cartItem)
addToCart_save(p) ==
    /\ req[p].op = "addToCart"
    /\ RepositorySave(p)

\* DELETE /cart/remove/:productId: the lookup of the line item
removeFromCart(p, user, productId) ==
    /\ ~InFlight(req[p])
    /\ LET r == [NewReq("removeFromCart", user, productId, 0, "a") EXCEPT !.acc = 1]
           found == CartItemsOf(cartItems, user, productId)
       IN IF found = {}
          THEN req' = [req EXCEPT ![p] = Finish(r, "NotFound", {})]
          ELSE \E c \in found :
                 req' = [req EXCEPT ![p] = [r EXCEPT !.pc = "delete", !.cartItem = {c}]]
    /\ UNCHANGED <<store, script, log>>

\* await this.cartItemRepository.remove(cartItem)
removeFromCart_remove(p) ==
    /\ req[p].op = "removeFromCart" /\ req[p].pc = "delete"
    /\ LET r == [req[p] EXCEPT !.acc = @ + 1]
           c == CHOOSE x \in r.cartItem : TRUE
       IN /\ cartItems' = RemoveItem(cartItems, c)
          /\ req' = [req EXCEPT ![p] = Finish(r, "ok", {})]
    /\ UNCHANGED <<products, nextProductId, nextItemId, script, log>>

\* GET /cart
getCart(p, user) ==
    /\ ~InFlight(req[p])
    /\ LET r == [NewReq("getCart", user, 0, 0, "a") EXCEPT !.acc = 1]
       IN req' = [req EXCEPT ![p] = Finish(r, "ok", CartOf(cartItems, user))]
    /\ UNCHANGED <<store, script, log>>

\* PATCH /cart/update/:productId: validation, then the lookup of the line item
updateQuantity(p, user, productId, quantity) ==
    /\ ~InFlight(req[p])
    /\ LET r == NewReq("updateQuantity", user, productId, quantity, "a")
           found == CartItemsOf(cartItems, user, productId)
       IN IF ~ValidQuantity(quantity)
          THEN req' = [req EXCEPT ![p] = Finish(r, "ValidationError", {})]
          ELSE IF found = {}
               THEN req' = [req EXCEPT ![p] = Finish([r EXCEPT !.acc = 1], "NotFound", {})]
               ELSE \E c \in found :
                      req' = [req EXCEPT ![p] =
                                [r EXCEPT !.pc = "save", !.acc = 1,
                                          !.cartItem = {SetQuantity(c, quantity)}]]
    /\ UNCHANGED <<store, script, log>>

\* return this.cartItemRepository.save(cartItem)
updateQuantity_save(p) ==
    /\ req[p].op = "updateQuantity"
    /\ RepositorySave(p)

\* ----------------------------------------------------------- ProductService
\* GET /products
findAll(p) ==
    /\ ~InFlight(req[p])
    /\ LET r == [NewReq("findAll", "u1", 0, 0, "a") EXCEPT !.acc = 1]
       IN req' = [req EXCEPT ![p] =
                    [Finish(r, "ok", {}) EXCEPT !.retProducts = ActiveProducts(products)]]
    /\ UNCHANGED <<store, script, log>>

\* the outcome of ProductService.findOne(id) for request r
FindOneResult(r, prods) ==
    IF ActiveProductsById(prods, r.productId) = {}
    THEN Finish(r, "NotFound", {})
    ELSE [Finish(r, "ok", {}) EXCEPT !.retProducts = ActiveProductsById(prods, r.productId)]

\* GET /products/:id
findOne(p, id) ==
    /\ ~InFlight(req[p])
    /\ LET r == [NewReq("findOne", "u1", id, 0, "a") EXCEPT !.acc = 1]
       IN req' = [req EXCEPT ![p] = FindOneResult(r, products)]
    /\ UNCHANGED <<store, script, log>>

\* POST /products
create(p, name) ==
    /\ ~InFlight(req[p])
    /\ nextProductId \in ProductIds
    /\ LET r == [NewReq("create", "u1", nextProductId, 0, name) EXCEPT !.acc = 1]
           product == Product(nextProductId, name, TRUE)
       IN /\ products' = products \cup {product}
          /\ nextProductId' = nextProductId + 1
          /\ req' = [req EXCEPT ![p] = [Finish(r, "ok", {}) EXCEPT !.retProducts = {product}]]
    /\ UNCHANGED <<cartItems, nextItemId, script, log>>

\* PUT /products/:id: await this.findOne(id)
update(p, id, name) ==
    /\ ~InFlight(req[p])
    /\ LET r == [NewReq("update", "u1", id, 0, name) EXCEPT !.acc = 1]
       IN IF ActiveProductsById(products, id) = {}
          THEN req' = [req EXCEPT ![p] = Finish(r, "NotFound", {})]
          ELSE req' = [req EXCEPT ![p] = [r EXCEPT !.pc = "update"]]
    /\ UNCHANGED <<store, script, log>>

\* productRepository.update(id, partial): UPDATE ... WHERE id = id
UpdateById(prods, id, name) ==
    {IF x.id = id THEN [x EXCEPT !.name = name] ELSE x : x \in prods}

\* productRepository.update(id, { isActive: false })
DeactivateById(prods, id) ==
    {IF x.id = id THEN [x EXCEPT !.isActive = FALSE] ELSE x : x \in prods}

\* await this.productRepository.update(id, updateProductDto)
update_write(p) ==
    /\ req[p].op = "update" /\ req[p].pc = "update"
    /\ products' = UpdateById(products, req[p].productId, req[p].name)
    /\ req' = [req EXCEPT ![p] = [@ EXCEPT !.pc = "refind", !.acc = @ + 1]]
    /\ UNCHANGED <<nextProductId, cartItems, nextItemId, script, log>>

\* return this.findOne(id)
update_findOne(p) ==
    /\ req[p].op = "update" /\ req[p].pc = "refind"
    /\ req' = [req EXCEPT ![p] = FindOneResult([@ EXCEPT !.acc = @ + 1], products)]
    /\ UNCHANGED <<store, script, log>>

\* DELETE /products/:id: await this.findOne(id)
remove(p, id) ==
    /\ ~InFlight(req[p])
    /\ LET r == [NewReq("remove", "u1", id, 0, "a") EXCEPT !.acc = 1]
       IN IF ActiveProductsById(products, id) = {}
          THEN req' = [req EXCEPT ![p] = Finish(r, "NotFound", {})]
          ELSE req' = [req EXCEPT ![p] = [r EXCEPT !.pc = "update"]]
    /\ UNCHANGED <<store, script, log>>

\* variant: the soft delete also prunes the line items of the product
remove_writePruning(p) ==
    /\ req[p].op = "remove" /\ req[p].pc = "update"
    /\ products' = DeactivateById(products, req[p].productId)
    /\ cartItems' = {c \in cartItems : c.product # req[p].productId}
    /\ req' = [req EXCEPT ![p] = Finish([@ EXCEPT !.acc = @ + 1], "ok", {})]
    /\ UNCHANGED <<nextProductId, nextItemId, script, log>>

\* await this.productRepository.update(id, { isActive: false })
remove_write(p) ==
    /\ req[p].op = "remove" /\ req[p].pc = "update"
    /\ products' = DeactivateById(products, req[p].productId)
    /\ req' = [req EXCEPT ![p] = Finish([@ EXCEPT !.acc = @ + 1], "ok", {})]
    /\ UNCHANGED <<nextProductId, cartItems, nextItemId, script, log>>

\* DELETE /products/:id/hard: productRepository.findOne({ where: { id } })
hardRemove(p, id) ==
    /\ ~InFlight(req[p])
    /\ LET r == [NewReq("hardRemove", "u1", id, 0, "a") EXCEPT !.acc = 1]
       IN IF ProductsById(products, id) = {}
          THEN req' = [req EXCEPT ![p] = Finish(r, "NotFound", {})]
          ELSE req' = [req EXCEPT ![p] = [r EXCEPT !.pc = "erase"]]
    /\ UNCHANGED <<store, script, log>>

\* await this.productRepository.remove(product); the delete of a product row
\* that a line item references violates the foreign key of CartItem.product
hardRemove_remove(p) ==
    /\ req[p].op = "hardRemove" /\ req[p].pc = "erase"
    /\ LET r == [req[p] EXCEPT !.acc = @ + 1]
       IN IF ReferencedBy(cartItems, r.productId) # {}
          THEN /\ req' = [req EXCEPT ![p] = Finish(r, "StoreError", {})]
               /\ UNCHANGED products
          ELSE /\ products' = {x \in products : x.id # r.productId}
               /\ req' = [req EXCEPT ![p] = Finish(r, "ok", {})]
    /\ UNCHANGED <<nextProductId, cartItems, nextItemId, script, log>>

\* ------------------------------------------------------------ specifications
\* the steps that continue a cart request already being handled
CartContinue(p) ==
    \/ addToCart_findProduct(p)
    \/ addToCart_save(p)
    \/ removeFromCart_remove(p)
    \/ updateQuantity_save(p)

\* the steps that continue a catalog request already being handled
CatalogContinue(p) ==
    \/ update_write(p)
    \/ update_findOne(p)
    \/ remove_write(p)
    \/ hardRemove_remove(p)

\* the arrival of a cart request of one of the users
CartCall(p, users) ==
    \/ \E u \in users, id \in ProductIds, q \in QtyInputs :
          AddWithinBounds(u, id, q) /\ addToCart(p, u, id, q)
    \/ \E u \in users, id \in ProductIds : removeFromCart(p, u, id)
    \/ \E u \in users : getCart(p, u)
    \/ \E u \in users, id \in ProductIds, q \in QtyInputs : updateQuantity(p, u, id, q)

\* the arrival of a catalog request
CatalogCall(p) ==
    \/ findAll(p)
    \/ \E id \in ProductIds : findOne(p, id)
    \/ \E n \in Names : create(p, n)
    \/ \E id \in ProductIds, n \in Names : update(p, id, n)
    \/ \E id \in ProductIds : remove(p, id)
    \/ \E id \in ProductIds : hardRemove(p, id)

NoneInFlight == \A p \in Requests : ~InFlight(req[p])

\* requests handled one after another
Next ==
    \E p \in SeqRequests :
       \/ NoneInFlight /\ CartCall(p, Users)
       \/ NoneInFlight /\ CatalogCall(p)
       \/ CartContinue(p)
       \/ CatalogContinue(p)

Spec == Init /\ [][Next]_vars

\* the store after one product has been created
ConcInit ==
    /\ products = {Product(1, "a", TRUE)}
    /\ nextProductId = 2
    /\ cartItems = {}
    /\ nextItemId = 1
    /\ req = [p \in Requests |-> IdleReq]
    /\ script = <<>>
    /\ log = <<>>

\* cart requests of one user interleaved at their store accesses
ConcNext ==
    \E p \in Requests :
       \/ CartCall(p, ConcUsers)
       \/ CartContinue(p)

ConcSpec == ConcInit /\ [][ConcNext]_vars

\* ------------------------------------------------------------------ scenarios
\* A scenario is a client that issues the calls of script one after another,
\* each after the response to the previous one, and keeps the responses in log.
AddCmd(u, id, q) == [op |-> "addToCart", user |-> u, productId |-> id, quantity |-> q]
RemoveCmd(u, id) == [op |-> "removeFromCart", user |-> u, productId |-> id, quantity |-> 0]
GetCmd(u) == [op |-> "getCart", user |-> u, productId |-> 0, quantity |-> 0]
UpdateCmd(u, id, q) == [op |-> "updateQuantity", user |-> u, productId |-> id, quantity |-> q]

\* add twice, looking at the cart before and after
AddTwice(u, id, q1, q2) == <<GetCmd(u), AddCmd(u, id, q1), AddCmd(u, id, q2), GetCmd(u)>>

\* the end-to-end run: add 2, add 3, update to 1, remove, looking at the cart
\* before the first call and after each call
EndToEnd(u, id) ==
    <<GetCmd(u), AddCmd(u, id, 2), GetCmd(u), AddCmd(u, id, 3), GetCmd(u),
      UpdateCmd(u, id, 1), GetCmd(u), RemoveCmd(u, id), GetCmd(u)>>

Scripts ==
    {AddTwice(u, id, q1, q2) : u \in Users, id \in ProductIds, q1 \in 1..MaxQty, q2 \in 1..MaxQty}
    \cup {EndToEnd(u, id) : u \in Users, id \in ProductIds}

\* stores a scenario starts from: product 1 exists, active or soft-deleted, and
\* at most one line item on it has been created
ScenarioCarts ==
    {{}} \cup {{CartItem(1, u, 1, q)} : u \in Users, q \in 1..MaxQty}

ScenarioInit ==
    /\ \E active \in BOOLEAN : products = {Product(1, "a", active)}
    /\ nextProductId = 2
    /\ cartItems \in ScenarioCarts
    /\ nextItemId = Cardinality(cartItems) + 1
    /\ req = [p \in Requests |-> IdleReq]
    /\ script \in Scripts
    /\ log = <<>>

\* the client issues its next call
ScriptCall ==
    /\ req[1].pc = "idle"
    /\ Len(log) < Len(script)
    /\ LET c == script[Len(log) + 1]
       IN \/ c.op = "addToCart" /\ addToCart(1, c.user, c.productId, c.quantity)
          \/ c.op = "removeFromCart" /\ removeFromCart(1, c.user, c.productId)
          \/ c.op = "getCart" /\ getCart(1, c.user)
          \/ c.op = "updateQuantity" /\ updateQuantity(1, c.user, c.productId, c.quantity)

\* the client receives the response
ScriptResponse ==
    /\ req[1].pc = "done"
    /\ log' = Append(log, [op |-> req[1].op, status |-> req[1].status, ret |-> req[1].ret])
    /\ req' = [req EXCEPT ![1] = IdleReq]
    /\ UNCHANGED <<store, script>>

ScenarioNext ==
    \/ ScriptCall
    \/ ScriptResponse
    \/ CartContinue(1)

ScenarioSpec == ScenarioInit /\ [][ScenarioNext]_vars

\* ---------------------------------------------------------------- add races
\* Two clients add to the same line item at the same time. The owner looked at
\* the cart before (log holds that response); script[p + 1] is the call of
\* client p.
RaceScripts ==
    {<<GetCmd(u), AddCmd(u, 1, d1), AddCmd(u, 1, d2)>> :
        u \in Users, d1 \in 1..MaxQty, d2 \in 1..MaxQty}

\* stores a race starts from: product 1 exists, the owner has a line item on
\* it, and another user may have one too
RaceCarts(u) ==
    {{CartItem(1, u, 1, q)} : q \in 1..MaxQty}
    \cup {{CartItem(1, u, 1, q), CartItem(2, v, 1, w)} :
             q \in 1..MaxQty, v \in Users \ {u}, w \in 1..MaxQuantity}

RaceInit ==
    /\ \E n \in Names, active \in BOOLEAN : products = {Product(1, n, active)}
    /\ nextProductId = 2
    /\ script \in RaceScripts
    /\ cartItems \in RaceCarts(script[1].user)
    /\ nextItemId = Cardinality(cartItems) + 1
    /\ req = [p \in Requests |-> IdleReq]
    /\ log = <<[op |-> "getCart", status |-> "ok",
                ret |-> CartOf(cartItems, script[1].user)]>>

\* client p issues its call
RaceCall(p) ==
    /\ req[p].pc = "idle"
    /\ LET c == script[p + 1]
       IN addToCart(p, c.user, c.productId, c.quantity)

\* the two calls interleaved at their store accesses
RaceNext ==
    \E p \in Requests :
       \/ RaceCall(p)
       \/ addToCart_save(p)

RaceSpec == RaceInit /\ [][RaceNext]_vars

\* ------------------------------------------------------------ catalog races
\* An update of product 1 runs at the same time as its soft delete or its hard
\* removal. script[1] is the call that created the product (log holds its
\* response); script[p + 1] is the call of client p.
CatalogCmd(op, id, name) == [op |-> op, productId |-> id, name |-> name]

CatalogRaceScripts ==
    {<<CatalogCmd("create", 1, n0), CatalogCmd("update", 1, n), CatalogCmd(op, 1, "a")>> :
        n0 \in Names, n \in Names, op \in {"remove", "hardRemove"}}

\* carts a catalog race starts from: at most one line item on product 1
CatalogRaceCarts ==
    {{}} \cup {{CartItem(1, u, 1, q)} : u \in Users, q \in 1..MaxQty}

CatalogRaceInit ==
    /\ script \in CatalogRaceScripts
    /\ \E active \in BOOLEAN : products = {Product(1, script[1].name, active)}
    /\ nextProductId = 2
    /\ cartItems \in CatalogRaceCarts
    /\ nextItemId = Cardinality(cartItems) + 1
    /\ req = [p \in Requests |-> IdleReq]
    /\ log = <<[op |-> "create", status |-> "ok", ret |-> {},
                retProducts |-> {Product(1, script[1].name, TRUE)}]>>

\* client p issues its call
CatalogRaceCall(p) ==
    /\ req[p].pc = "idle"
    /\ LET c == script[p + 1]
       IN \/ c.op = "update" /\ update(p, c.productId, c.name)
          \/ c.op = "remove" /\ remove(p, c.productId)
          \/ c.op = "hardRemove" /\ hardRemove(p, c.productId)

\* the two calls interleaved at their store accesses
CatalogRaceNext ==
    \E p \in Requests :
       \/ CatalogRaceCall(p)
       \/ CatalogContinue(p)

CatalogRaceSpec == CatalogRaceInit /\ [][CatalogRaceNext]_vars

\* ------------------------------------------------------------------ properties
\* the line items of (user, product id) among items
LineItems(items, u, id) == {c \in items : c.user = u /\ c.product = id}

\* the line items owned by user u among items
OwnedBy(items, u) == {c \in items : c.user = u}

ProductExists(id) == \E x \in products : x.id = id

\* a cart as the quantity per product
Contents(items) == {<<c.product, c.quantity>> : c \in items}

\* this step is the one in which request p returns from handler op
Completes(p, op) ==
    /\ req'[p].op = op
    /\ req'[p].pc = "done"
    /\ req'[p] # req[p]

\* C1: with no line item for (U, P) and P existing, addToCart(U, P, q1) then
\* addToCart(U, P, q2) both succeed and leave exactly one line item for (U, P),
\* of quantity q1 + q2, which the second call returns.
C1_AddTwiceMerges ==
    \A u \in Users, id \in ProductIds, q1 \in 1..MaxQty, q2 \in 1..MaxQty :
       (/\ script = AddTwice(u, id, q1, q2)
        /\ Len(log) >= 3
        /\ ProductExists(id)
        /\ LineItems(log[1].ret, u, id) = {})
       => /\ log[2].status = "ok"
          /\ log[3].status = "ok"
          /\ Cardinality(LineItems(cartItems, u, id)) = 1
          /\ \A c \in LineItems(cartItems, u, id) : c.quantity = q1 + q2
          /\ log[3].ret = LineItems(cartItems, u, id)

C1_Witness ==
    /\ \E u \in Users, id \in ProductIds :
          /\ script = AddTwice(u, id, 1, 1)
          /\ ProductExists(id)
          /\ Len(log) = 4
          /\ LineItems(log[1].ret, u, id) = {}
          /\ Contents(LineItems(log[4].ret, u, id)) = {<<id, 2>>}

\* C2: when requests are handled one after another there is at most one line
\* item for every (user, product) pair.
C2_AtMostOneLineItem ==
    \A u \in Users, id \in ProductIds : Cardinality(LineItems(cartItems, u, id)) <= 1

C2_Witness ==
    /\ req[1].op = "addToCart" /\ req[1].status = "ok"
    /\ \E c \in cartItems : c.user = req[1].user /\ c.product = req[1].productId
                            /\ c.quantity > req[1].quantity

\* C3: an addToCart call that observed the line item as absent inserts a new
\* line item when it saves, whatever another call has inserted since the
\* lookup; two interleaved calls so reach two line items for one pair.
C3_AbsentObserversBothInsert ==
    [][\A p \in Requests :
          (/\ req[p].op = "addToCart" /\ req[p].pc = "save"
           /\ \A c \in req[p].cartItem : c.id = NoId
           /\ ProductExists(req[p].productId)
           /\ req'[p].pc = "done")
          => /\ req'[p].status = "ok"
             /\ \E c \in req'[p].ret :
                   /\ c \notin cartItems
                   /\ c.user = req[p].user /\ c.product = req[p].productId
                   /\ cartItems' = cartItems \cup {c}
                   /\ \A x \in cartItems : x.id # c.id]_vars

C3_Witness ==
    /\ \A p \in Requests : req[p].op = "addToCart" /\ req[p].status = "ok"
    /\ req[1].user = req[2].user /\ req[1].productId = req[2].productId
    /\ req[1].ret # req[2].ret
    /\ \A p \in Requests : \A c \in req[p].ret : c.quantity = req[p].quantity
    /\ Cardinality(LineItems(cartItems, req[1].user, req[1].productId)) = 2

\* C4: updateQuantity(U, P, q) with q >= 1 on an existing line item succeeds,
\* leaves that line item with quantity exactly q, creates and deletes no line
\* item and returns the updated line item.
C4_UpdateOverwrites ==
    [][\A p \in SeqRequests :
          (/\ Completes(p, "updateQuantity")
           /\ req'[p].quantity >= 1
           /\ LineItems(cartItems, req'[p].user, req'[p].productId) # {})
          => /\ req'[p].status = "ok"
             /\ \E c \in LineItems(cartItems, req'[p].user, req'[p].productId) :
                   LET d == [c EXCEPT !.quantity = req'[p].quantity]
                   IN /\ req'[p].ret = {d}
                      /\ cartItems' = (cartItems \ {c}) \cup {d}]_vars

C4_Witness ==
    /\ req[1].op = "updateQuantity" /\ req[1].status = "ok"
    /\ \E c \in req[1].ret : c \in cartItems /\ c.quantity = 1 /\ req[1].quantity = 1

\* C5: addToCart with a valid quantity and a product id that matches no
\* product record fails with NotFound and leaves the line items as they were.
C5_AddUnknownProduct ==
    [][\A p \in SeqRequests :
          (/\ Completes(p, "addToCart")
           /\ req'[p].quantity >= 1
           /\ ~ProductExists(req'[p].productId))
          => /\ req'[p].status = "NotFound"
             /\ cartItems' = cartItems
             /\ nextItemId' = nextItemId]_vars

C5_Witness ==
    /\ req[1].op = "addToCart" /\ req[1].status = "NotFound"
    /\ ~ProductExists(req[1].productId)
    /\ products # {}

\* C6: removeFromCart(U, P) fails with NotFound and changes no line item when
\* (U, P) has no line item; otherwise it succeeds and deletes exactly the line
\* item of (U, P), and the removeFromCart(U, P) right after it fails with NotFound.
C6_RemoveOutcome ==
    [][\A p \in SeqRequests :
          /\ Completes(p, "removeFromCart")
             => IF LineItems(cartItems, req'[p].user, req'[p].productId) = {}
                THEN req'[p].status = "NotFound" /\ cartItems' = cartItems
                ELSE /\ req'[p].status = "ok"
                     /\ LineItems(cartItems', req'[p].user, req'[p].productId) = {}
                     /\ cartItems' = cartItems
                                       \ LineItems(cartItems, req'[p].user, req'[p].productId)
          /\ (/\ req[p].op = "removeFromCart" /\ req[p].status = "ok"
              /\ req'[p] # req[p]
              /\ req'[p].op = "removeFromCart"
              /\ req'[p].user = req[p].user /\ req'[p].productId = req[p].productId)
             => req'[p].pc = "done" /\ req'[p].status = "NotFound"]_vars

C6_Witness ==
    /\ req[1].op = "removeFromCart" /\ req[1].status = "ok"
    /\ LineItems(cartItems, req[1].user, req[1].productId) = {}
    /\ cartItems # {}

\* C7: updateQuantity(U, P, q) on a pair without line item leaves the line
\* items as they were, and with q >= 1 it fails with NotFound.
C7_UpdateAbsent ==
    [][\A p \in SeqRequests :
          (/\ Completes(p, "updateQuantity")
           /\ LineItems(cartItems, req'[p].user, req'[p].productId) = {})
          => /\ req'[p].quantity >= 1 => req'[p].status = "NotFound"
             /\ req'[p].status # "ok"
             /\ cartItems' = cartItems
             /\ nextItemId' = nextItemId]_vars

C7_Witness ==
    /\ req[1].op = "updateQuantity" /\ req[1].status = "NotFound"
    /\ LineItems(cartItems, req[1].user, req[1].productId) = {}
    /\ \E c \in cartItems : c.product = req[1].productId

\* C8: a soft-deleted product is left out of findAll and findOne fails on it
\* with NotFound; its record still exists; hardRemove of an existing product
\* succeeds and erases the record whatever its active flag.
C8_SoftDeleteThenHardRemove ==
    [][\A p \in SeqRequests :
          /\ Completes(p, "findAll")
             => req'[p].retProducts = {x \in products : x.isActive}
          /\ (Completes(p, "findOne")
              /\ \A x \in products : x.id = req'[p].productId => ~x.isActive)
             => req'[p].status = "NotFound"
          /\ (Completes(p, "remove") /\ req'[p].status = "ok")
             => \E x \in products' : x.id = req'[p].productId /\ ~x.isActive
          /\ (Completes(p, "hardRemove") /\ ProductExists(req'[p].productId))
             => /\ req'[p].status = "ok"
                /\ \A x \in products' : x.id # req'[p].productId]_vars

\* C9: on an empty cart and an existing product P the calls add(P, 2),
\* add(P, 3), update(P, 1), remove(P) all succeed and getCart shows {P: 2},
\* {P: 5}, {P: 1} and the empty cart after them.
C9_EndToEnd ==
    \A u \in Users, id \in ProductIds :
       (/\ script = EndToEnd(u, id)
        /\ ProductExists(id)
        /\ Len(log) >= 1
        /\ log[1].ret = {})
       => /\ \A k \in 1..Len(log) : log[k].status = "ok"
          /\ Len(log) >= 3 => Contents(log[3].ret) = {<<id, 2>>} /\ Cardinality(log[3].ret) = 1
          /\ Len(log) >= 5 => Contents(log[5].ret) = {<<id, 5>>} /\ Cardinality(log[5].ret) = 1
          /\ Len(log) >= 7 => Contents(log[7].ret) = {<<id, 1>>} /\ Cardinality(log[7].ret) = 1
          /\ Len(log) >= 9 => log[9].ret = {}

C9_Witness ==
    /\ \E u \in Users, id \in ProductIds : script = EndToEnd(u, id) /\ ProductExists(id)
    /\ Len(log) = 9
    /\ log[1].ret = {}
    /\ Cardinality(log[5].ret) = 1
    /\ log[9].ret = {}

\* C10: getCart(U) returns exactly the line items owned by U and changes
\* neither line items nor products.
C10_GetCartReadOnly ==
    [][\A p \in SeqRequests :
          Completes(p, "getCart")
          => /\ req'[p].status = "ok"
             /\ req'[p].ret = OwnedBy(cartItems, req'[p].user)
             /\ store' = store]_vars

C10_Witness ==
    /\ req[1].op = "getCart" /\ req[1].status = "ok"
    /\ req[1].ret # {}
    /\ req[1].ret # cartItems

\* the ids of the line items among items
ItemIds(items) == {c.id : c \in items}

\* C11: a line item disappears only in the step in which a removeFromCart
\* returns successfully; the steps of ProductService.update and
\* ProductService.remove leave every line item as it was, and getCart still
\* returns the line items of a soft-deleted product.
C11_OnlyRemoveFromCartDestroys ==
    [][/\ ~(ItemIds(cartItems) \subseteq ItemIds(cartItems'))
          => \E p \in SeqRequests : Completes(p, "removeFromCart") /\ req'[p].status = "ok"
       /\ \A p \in SeqRequests :
             /\ (req'[p] # req[p] /\ req'[p].op \in {"update", "remove"})
                => cartItems' = cartItems /\ nextItemId' = nextItemId
             /\ Completes(p, "getCart")
                => \A c \in cartItems : c.user = req'[p].user => c \in req'[p].ret]_vars

C11_Witness ==
    /\ req[1].op = "getCart" /\ req[1].status = "ok"
    /\ \E c \in req[1].ret : \E x \in products : x.id = c.product /\ ~x.isActive /\ x.name = "b"

CartOps == {"addToCart", "removeFromCart", "getCart", "updateQuantity"}

\* C12 as stated: every cart operation performs at most two store accesses.
C12_AtMostTwoAccesses ==
    \A p \in SeqRequests : req[p].op \in CartOps => req[p].acc <= 2

\* C12 as the code has it: removeFromCart and updateQuantity perform at most
\* two store accesses and getCart one; addToCart performs two when it finds the
\* line item (lookup, save) and three when it does not (lookup of the line
\* item, lookup of the product, insert).
C12_AccessCounts ==
    \A p \in SeqRequests :
       LET r == req[p]
       IN /\ r.op \in {"removeFromCart", "updateQuantity"} => r.acc <= 2
          /\ r.op = "getCart" => r.acc <= 1
          /\ r.op = "addToCart" => r.acc <= 3
          /\ (r.op = "addToCart" /\ r.pc = "done" /\ r.status = "ok")
             => \A c \in r.cartItem : r.acc = (IF c.id = NoId THEN 3 ELSE 2)

C12_Witness ==
    /\ req[1].op = "addToCart" /\ req[1].pc = "done" /\ req[1].status = "ok"
    /\ req[1].acc = 3
    /\ req[1].ret \subseteq cartItems

\* C13: every persisted line item has an integer quantity of at least 1, and
\* an addToCart or updateQuantity request with a quantity below 1 ends with a
\* validation error without any store access and without changing the store.
C13_QuantitiesPositive ==
    /\ [](\A c \in cartItems : c.quantity \in Int /\ c.quantity >= 1)
    /\ [][\A p \in SeqRequests :
             (/\ req'[p] # req[p]
              /\ req'[p].op \in {"addToCart", "updateQuantity"}
              /\ req'[p].quantity < 1)
             => /\ req'[p].pc = "done"
                /\ req'[p].status = "ValidationError"
                /\ req'[p].acc = 0
                /\ store' = store]_vars

C13_Witness ==
    /\ req[1].op = "updateQuantity" /\ req[1].status = "ValidationError"
    /\ req[1].quantity = 0
    /\ \E c \in cartItems : c.user = req[1].user /\ c.product = req[1].productId
                            /\ c.quantity = MaxQuantity

\* C14: addToCart with a valid quantity for a soft-deleted product of which
\* the user has no line item fails with NotFound and creates no line item.
C14_AddSoftDeletedFails ==
    [][\A p \in SeqRequests :
          (/\ Completes(p, "addToCart")
           /\ req'[p].quantity >= 1
           /\ \E x \in products : x.id = req'[p].productId /\ ~x.isActive
           /\ LineItems(cartItems, req'[p].user, req'[p].productId) = {})
          => /\ req'[p].status = "NotFound"
             /\ cartItems' = cartItems]_vars

\* C15: ProductService.update and ProductService.remove on an id that has no
\* product record or whose product is soft-deleted fail with NotFound and
\* leave every product record as it was; a soft-deleted product stays inactive.
C15_UpdateRemoveOnInactive ==
    [][\A p \in SeqRequests :
          (/\ req'[p] # req[p]
           /\ req'[p].op \in {"update", "remove"}
           /\ ~InFlight(req[p])
           /\ \A x \in products : x.id = req'[p].productId => ~x.isActive)
          => /\ req'[p].pc = "done"
             /\ req'[p].status = "NotFound"
             /\ products' = products]_vars

C15_Witness ==
    /\ req[1].op = "remove" /\ req[1].status = "NotFound"
    /\ \E x \in products : x.id = req[1].productId /\ ~x.isActive /\ x.name = "b"

\* C16: every line item references a product record that exists; hardRemove
\* never leaves a line item whose product record was erased.
C16_LineItemsReferenceProducts ==
    \A c \in cartItems : ProductExists(c.product)

C16_Witness ==
    /\ req[1].op = "hardRemove" /\ req[1].pc = "done" /\ req[1].status = "StoreError"
    /\ \E c \in cartItems : c.product = req[1].productId /\ ProductExists(c.product)

\* C17: cart operations are isolated per user: no step of addToCart,
\* updateQuantity or removeFromCart of user U creates, changes or deletes a
\* line item of another user V (so getCart(V) answers the same before and
\* after), and whether the operation ends in NotFound is decided by U's own
\* line item for the product (and, for addToCart, the product record) alone.
C17_CartsIsolated ==
    [][\A p \in SeqRequests :
          (req'[p] # req[p]
           /\ req'[p].op \in {"addToCart", "updateQuantity", "removeFromCart"})
          => LET u == req'[p].user
                 own == LineItems(cartItems, u, req'[p].productId)
             IN /\ \A v \in Users \ {u} : OwnedBy(cartItems', v) = OwnedBy(cartItems, v)
                /\ Completes(p, "removeFromCart")
                   => (req'[p].status = "NotFound" <=> own = {})
                /\ Completes(p, "updateQuantity")
                   => (req'[p].status = "NotFound"
                       <=> req'[p].quantity >= 1 /\ own = {})
                /\ Completes(p, "addToCart")
                   => (req'[p].status = "NotFound"
                       <=> /\ req'[p].quantity >= 1
                           /\ own = {}
                           /\ ~ProductExists(req'[p].productId))]_vars

C17_Witness ==
    /\ req[1].op = "updateQuantity" /\ req[1].pc = "done" /\ req[1].status = "ok"
    /\ \E c \in cartItems, d \in cartItems :
          /\ c.user = req[1].user /\ c.product = req[1].productId
          /\ d.user # c.user /\ d.product = c.product
          /\ d.quantity # c.quantity

\* C18: no increment is lost: when interleaved addToCart calls with deltas d1
\* and d2 on the same existing line item of quantity q have all succeeded, the
\* line item has quantity q + d1 + d2.
C18_NoIncrementLost ==
    (\A p \in Requests : req[p].pc = "done" /\ req[p].status = "ok")
    => \A c0 \in LineItems(log[1].ret, script[2].user, script[2].productId) :
          \E c \in cartItems :
             /\ c.id = c0.id
             /\ c.quantity = c0.quantity + req[1].quantity + req[2].quantity

\* C19: ProductService.update fails with NotFound only if it persisted no
\* change, whatever the interleaving with a soft delete or hardRemove of the
\* product: after an update that answered NotFound the product record, if it
\* exists, holds the data it was created with (the update is the only writer
\* of the data).
C19_NotFoundMeansUnchanged ==
    (req[1].op = "update" /\ req[1].pc = "done" /\ req[1].status = "NotFound")
    => \A x0 \in log[1].retProducts : \A x \in products :
          x.id = x0.id => x.name = x0.name

====
